---- MODULE Spec2Model ----
(***************************************************************************)
(* Track lights controller: the press-sequencing engine (GPIOController),  *)
(* its persistent store (StateManager) and the request handlers that call  *)
(* the engine (api.py), as a state machine.                                *)
(***************************************************************************)
EXTENDS Integers, Sequences, FiniteSets, TLC

\* ------------------------------------------------------------------ bounds
\* Requests that may be waiting for the event loop at the same time.
MaxPending == 2
\* Handler frames that may exist at the same time.
MaxHandlers == 2

Handlers == 1..MaxHandlers

\* --------------------------------------------------------------- enumerations
\* LightMode members; LightModeValue is the member's string value.
LightMode ==
    {"BREATHE_COLORS", "COLOR_DURATION", "TRACK_DIRECTION",
     "CIRCULAR_PATTERN", "WHITE_MODE", "OFF"}

LightModeValue(m) ==
    CASE m = "BREATHE_COLORS"   -> "breathe_colors"
      [] m = "COLOR_DURATION"   -> "color_duration"
      [] m = "TRACK_DIRECTION"  -> "track_direction"
      [] m = "CIRCULAR_PATTERN" -> "circular_pattern"
      [] m = "WHITE_MODE"       -> "white_mode"
      [] m = "OFF"              -> "off"

\* LightColor members; LightColorValue is the member's string value.
LightColor == {"RED", "GREEN", "YELLOW"}

LightColorValue(c) ==
    CASE c = "RED"    -> "red"
      [] c = "GREEN"  -> "green"
      [] c = "YELLOW" -> "yellow"

\* The engine's last_color_pressed when no color is recorded (Python None).
NoColor == "None"

PIN_SW1_RED == 17
PIN_SW2_GREEN == 18
PIN_SW3_YELLOW == 27
PIN_SW4_MODE == 22

MODE_PRESS_COUNT(m) ==
    CASE m = "BREATHE_COLORS"   -> 1
      [] m = "COLOR_DURATION"   -> 2
      [] m = "TRACK_DIRECTION"  -> 3
      [] m = "CIRCULAR_PATTERN" -> 4
      [] m = "WHITE_MODE"       -> 5
      [] m = "OFF"              -> 6

\* {v: k for k, v in MODE_PRESS_COUNT.items()}; "KeyError" outside its keys.
PRESS_COUNT_TO_MODE(n) ==
    IF \E m \in LightMode : MODE_PRESS_COUNT(m) = n
    THEN CHOOSE m \in LightMode : MODE_PRESS_COUNT(m) = n
    ELSE "KeyError"

\* pin_map of press_color_switch.
pin_map_mode(c) ==
    CASE c = "RED"    -> PIN_SW1_RED
      [] c = "GREEN"  -> PIN_SW2_GREEN
      [] c = "YELLOW" -> PIN_SW4_MODE

pin_map(c) ==
    CASE c = "RED"    -> PIN_SW1_RED
      [] c = "GREEN"  -> PIN_SW2_GREEN
      [] c = "YELLOW" -> PIN_SW3_YELLOW

\* ------------------------------------------------------ values and the file
\* Python values that cross the store's interface.
PyNone == [t |-> "none", n |-> 0, s |-> ""]
PyInt(n) == [t |-> "int", n |-> n, s |-> ""]
PyStr(s) == [t |-> "str", n |-> 0, s |-> s]
\* True and False, with the integer value Python gives them (1 and 0).
PyBool(n) == [t |-> "bool", n |-> n, s |-> ""]
\* A float; n is its integral part.
PyFloat(n) == [t |-> "float", n |-> n, s |-> ""]

\* JSON values of the state file's object; JMissing is an absent key.
JMissing == [t |-> "missing", n |-> 0, s |-> ""]
JNull == [t |-> "null", n |-> 0, s |-> ""]
JNumber(n) == [t |-> "number", n |-> n, s |-> ""]
JString(s) == [t |-> "string", n |-> 0, s |-> s]
\* true (n = 1) and false (n = 0).
JBool(n) == [t |-> "boolean", n |-> n, s |-> ""]
\* A number written with a fraction, such as 3.0.
JReal(n) == [t |-> "real", n |-> n, s |-> ""]

\* json.dump of one value.
json_dump_value(v) ==
    CASE v.t = "none"  -> JNull
      [] v.t = "int"   -> JNumber(v.n)
      [] v.t = "str"   -> JString(v.s)
      [] v.t = "bool"  -> JBool(v.n)
      [] v.t = "float" -> JReal(v.n)

\* json.load of one value.
json_load_value(j) ==
    CASE j.t = "null"    -> PyNone
      [] j.t = "number"  -> PyInt(j.n)
      [] j.t = "string"  -> PyStr(j.s)
      [] j.t = "boolean" -> PyBool(j.n)
      [] j.t = "real"    -> PyFloat(j.n)

\* datetime.now().isoformat(): the instant is not modelled, only that the
\* key holds a string.
isoformat_now == "iso"

\* The state file: absent, text that is no JSON object, or a JSON object
\* with these three keys (each possibly missing).
AbsentFile ==
    [kind |-> "absent", count |-> JMissing, color |-> JMissing, updated |-> JMissing]
GarbageFile ==
    [kind |-> "garbage", count |-> JMissing, color |-> JMissing, updated |-> JMissing]
ObjectFile(count, color, updated) ==
    [kind |-> "object", count |-> count, color |-> color, updated |-> updated]

\* ------------------------------------------------------------ StateManager
default_state == [current_mode_press_count |-> PyInt(0), last_color_pressed |-> PyNone]

\* save_state when the write and the replace succeed: the file it leaves.
save_state_file(count, color) ==
    ObjectFile(json_dump_value(count), json_dump_value(color), JString(isoformat_now))

\* isinstance(v, int): bool is a subclass of int.
isinstance_int(v) == v.t \in {"int", "bool"}

\* load_state: the dictionary it returns for a given file.
load_state_rejects_zero(file) ==
    IF file.kind = "absent" THEN default_state
    ELSE IF file.kind = "garbage" THEN default_state
    ELSE IF file.count.t = "missing" THEN default_state
    ELSE LET mode_count == json_load_value(file.count) IN
         IF ~isinstance_int(mode_count) \/ mode_count.n <= 0 \/ mode_count.n > 6
         THEN default_state
         ELSE [current_mode_press_count |-> mode_count,
               last_color_pressed |->
                   IF file.color.t = "missing" THEN PyNone
                   ELSE json_load_value(file.color)]

load_state_unvalidated(file) ==
    IF file.kind = "absent" THEN default_state
    ELSE IF file.kind = "garbage" THEN default_state
    ELSE IF file.count.t = "missing" THEN default_state
    ELSE LET mode_count == json_load_value(file.count) IN
         IF ~isinstance_int(mode_count)
         THEN default_state
         ELSE [current_mode_press_count |-> mode_count,
               last_color_pressed |->
                   IF file.color.t = "missing" THEN PyNone
                   ELSE json_load_value(file.color)]

load_state(file) ==
    IF file.kind = "absent" THEN default_state
    ELSE IF file.kind = "garbage" THEN default_state
    ELSE IF file.count.t = "missing" THEN default_state
    ELSE LET mode_count == json_load_value(file.count) IN
         IF ~isinstance_int(mode_count) \/ mode_count.n < 0 \/ mode_count.n > 6
         THEN default_state
         ELSE [current_mode_press_count |-> mode_count,
               last_color_pressed |->
                   IF file.color.t = "missing" THEN PyNone
                   ELSE json_load_value(file.color)]

\* clear_state when the removal succeeds: the file it leaves.
clear_state_rewrite(file) ==
    ObjectFile(JNumber(0), JNull, JString(isoformat_now))

clear_state_file(file) == AbsentFile

\* clear_state: what it returns. Without the os.path.exists test the removal
\* of an absent file would raise and the `except` would answer False.
clear_state_result_unchecked(file) == file.kind # "absent"

clear_state_result(file) == TRUE

\* -------------------------------------------------- GPIOController.__init__
\* LightColor(last_color_str) guarded by `if last_color_str` and ValueError.
init_last_color(v) ==
    IF v.t = "none" THEN NoColor
    ELSE IF v.t = "str" /\ v.s = "" THEN NoColor
    ELSE IF v.t \in {"int", "bool", "float"} /\ v.n = 0 THEN NoColor
    ELSE IF v.t = "str" /\ \E c \in LightColor : LightColorValue(c) = v.s
         THEN CHOOSE c \in LightColor : LightColorValue(c) = v.s
    ELSE NoColor

\* `self.last_color_pressed.value if self.last_color_pressed else None`
color_value_dropped(c) == PyNone

color_value(c) == IF c = NoColor THEN PyNone ELSE PyStr(LightColorValue(c))


\* ------------------------------------------------------------------- state
VARIABLES
    current_mode_press_count,  \* GPIOController.current_mode_press_count
    last_color_pressed,        \* GPIOController.last_color_pressed
    state_file,                \* the content of state.json
    device,                    \* mode-pin pulses delivered to the lights since
                               \* the last reference point, cyclic in 1..6
    pending,                   \* requests accepted, handler not yet started
    h,                         \* handler frames: position and locals of each
    last,                      \* the frame of the call that returned last
    sm,                        \* the last direct call to the StateManager
    tmp_file,                  \* the content of state.json.tmp
    GPIO_AVAILABLE             \* whether RPi.GPIO was imported

vars ==
    <<current_mode_press_count, last_color_pressed, state_file, device,
      pending, h, last, sm, tmp_file, GPIO_AVAILABLE>>

\* Times in milliseconds: the default hold of a press, the settle after the
\* release, the pause between the presses of one press_mode_switch call.
DEFAULT_DURATION == 200
SETTLE_DELAY == 100
INTER_PRESS_DELAY == 20

\* _simulate_button_press: the time one call takes.
button_press_time(gpio_available, duration) ==
    IF gpio_available THEN duration + SETTLE_DELAY ELSE duration

\* One entry of a handler's log of effects.
PulseEvent(pin) == [e |-> "pulse", pin |-> pin, count |-> PyNone, color |-> PyNone]
SaveEvent(count, color) == [e |-> "save", pin |-> 0, count |-> count, color |-> color]
ClearEvent == [e |-> "clear", pin |-> 0, count |-> PyNone, color |-> PyNone]
SaveFailedEvent(count, color) ==
    [e |-> "save_failed", pin |-> 0, count |-> count, color |-> color]

IdleFrame ==
    [pc |-> "idle", op |-> "none", color |-> NoColor, mode |-> "none",
     count |-> 0, i |-> 0, presses_needed |-> -1,
     p0 |-> 0, c0 |-> NoColor, f0 |-> AbsentFile, log |-> <<>>,
     action |-> "", r_color |-> "", r_pin |-> 0, r_press_count |-> 0,
     r_total |-> 0, r_mode |-> "", prev_op |-> "none", prev_mode |-> "none",
     elapsed |-> 0]

\* The frame of a handler entered now.
NewFrame(op) ==
    [IdleFrame EXCEPT !.op = op,
                      !.p0 = current_mode_press_count,
                      !.c0 = last_color_pressed,
                      !.f0 = state_file,
                      !.prev_op = last.op,
                      !.prev_mode = last.mode]

Returned(frame) == [frame EXCEPT !.pc = "returned"]

\* The handlers are coroutines that never await: the event loop runs one
\* to its return before it starts the next.
EventLoopFree_threadpool == \E r \in Handlers : h[r].pc = "idle"

EventLoopFree == \A r \in Handlers : h[r].pc = "idle"

FreeSlot ==
    CHOOSE r \in Handlers :
        h[r].pc = "idle" /\ \A q \in Handlers : h[q].pc = "idle" => r <= q

\* One cyclic advance of the mode position.
advance_stuck(p) == IF p = 6 THEN 6 ELSE p + 1

advance(p) == (p % 6) + 1

\* set_mode's press computation.
presses_needed_nowrap(current_count, target_count) ==
    IF current_count = 0 THEN target_count
    ELSE IF target_count = current_count THEN 0
    ELSE IF target_count > current_count THEN target_count - current_count
    ELSE 6 - target_count + current_count

presses_needed_zero_is_off(current_count, target_count) ==
    LET current == IF current_count = 0 THEN 6 ELSE current_count IN
    IF target_count = current THEN 0
    ELSE IF target_count > current THEN target_count - current
    ELSE (6 - current) + target_count

presses_needed_always(current_count, target_count) ==
    IF current_count = 0 THEN target_count
    ELSE IF target_count > current_count THEN target_count - current_count
    ELSE (6 - current_count) + target_count

presses_needed(current_count, target_count) ==
    IF current_count = 0 THEN target_count
    ELSE IF target_count = current_count THEN 0
    ELSE IF target_count > current_count THEN target_count - current_count
    ELSE (6 - current_count) + target_count

\* What the constructor leaves in memory for a given state file.
Construct(file) ==
    LET saved_state == load_state(file) IN
    [current_mode_press_count |-> saved_state.current_mode_press_count.n,
     last_color_pressed |-> init_last_color(saved_state.last_color_pressed)]

\* ----------------------------------------------------------- initial states
InitCounts ==
    {JMissing, JNull, JString("3"), JReal(3), JBool(0), JBool(1)}
        \cup {JNumber(n) : n \in {-1, 7, 99} \cup 0..6}

InitColors ==
    {JMissing, JNull} \cup {JString(s) : s \in {"red", "green", "yellow", "blue"}}

InitFiles ==
    {AbsentFile, GarbageFile}
        \cup {ObjectFile(n, c, JString(isoformat_now)) : n \in InitCounts, c \in InitColors}
        \cup {ObjectFile(JNumber(n), JNull, JMissing) : n \in {0, 6}}

NoStoreCall ==
    [call |-> "none", count |-> PyNone, color |-> PyNone, ok |-> TRUE,
     ret |-> default_state, before |-> AbsentFile, prev |-> "none",
     prev_count |-> PyNone, prev_color |-> PyNone, pc |-> "idle",
     prev_ok |-> TRUE]

Init ==
    /\ state_file \in InitFiles
    /\ current_mode_press_count = Construct(state_file).current_mode_press_count
    /\ last_color_pressed = Construct(state_file).last_color_pressed
    /\ device = current_mode_press_count
    /\ pending = 0
    /\ h = [r \in Handlers |-> IdleFrame]
    /\ last = IdleFrame
    /\ sm = NoStoreCall
    /\ tmp_file = AbsentFile
    /\ GPIO_AVAILABLE \in BOOLEAN

\* ------------------------------------------------------------------ actions
\* A request arrives while the loop may be busy with another.
Arrive ==
    /\ pending < MaxPending
    /\ pending' = pending + 1
    /\ UNCHANGED <<current_mode_press_count, last_color_pressed, state_file,
                   device, h, last, sm>>
    /\ UNCHANGED <<tmp_file, GPIO_AVAILABLE>>

\* POST /color: the handler enters press_color_switch.
set_color(color) ==
    /\ pending > 0
    /\ EventLoopFree
    /\ pending' = pending - 1
    /\ h' = [h EXCEPT ![FreeSlot] =
                [NewFrame("set_color") EXCEPT !.pc = "color_pulse", !.color = color]]
    /\ last' = IdleFrame
    /\ UNCHANGED <<current_mode_press_count, last_color_pressed, state_file,
                   device, sm>>
    /\ UNCHANGED <<tmp_file, GPIO_AVAILABLE>>

\* press_color_switch: the pulse on the color's pin and the memory update.
ColorPulse(r) ==
    /\ h[r].pc = "color_pulse"
    /\ device' = 0
    /\ last_color_pressed' = h[r].color
    /\ current_mode_press_count' = 0
    /\ h' = [h EXCEPT ![r].pc = "color_save",
                      ![r].log = Append(@, PulseEvent(pin_map(h[r].color))),
                      ![r].elapsed =
                          @ + button_press_time(GPIO_AVAILABLE, DEFAULT_DURATION)]
    /\ UNCHANGED <<state_file, pending, last, sm>>
    /\ UNCHANGED <<tmp_file, GPIO_AVAILABLE>>

\* press_color_switch: save_state and the returned record.
ColorSave(r) ==
    /\ h[r].pc = "color_save"
    /\ IF last_color_pressed = NoColor
       THEN \* None has no .value: the handler answers 500
            /\ last' = Returned([h[r] EXCEPT !.action = "http_500"])
            /\ UNCHANGED <<state_file, tmp_file>>
       ELSE LET count == PyInt(current_mode_press_count)
                color == PyStr(LightColorValue(last_color_pressed)) IN
            /\ state_file' = save_state_file(count, color)
            /\ tmp_file' = AbsentFile
            /\ last' = Returned(
                   [h[r] EXCEPT !.log = Append(@, SaveEvent(count, color)),
                                !.action = "color_switch_pressed",
                                !.r_color = LightColorValue(h[r].color),
                                !.r_pin = pin_map(h[r].color)])
    /\ h' = [h EXCEPT ![r] = IdleFrame]
    /\ UNCHANGED <<current_mode_press_count, last_color_pressed, device, pending, sm>>
    /\ UNCHANGED GPIO_AVAILABLE


\* POST /mode/press: the handler enters press_mode_switch(count).
press_mode_button(count) ==
    /\ pending > 0
    /\ EventLoopFree
    /\ pending' = pending - 1
    /\ h' = [h EXCEPT ![FreeSlot] =
                [NewFrame("press_mode_button") EXCEPT !.pc = "press", !.count = count]]
    /\ last' = IdleFrame
    /\ UNCHANGED <<current_mode_press_count, last_color_pressed, state_file,
                   device, sm>>
    /\ UNCHANGED <<tmp_file, GPIO_AVAILABLE>>

\* POST /mode: set_mode computes the presses; with none to make it returns
\* at once, otherwise it enters press_mode_switch(presses_needed).
set_mode(target_mode) ==
    /\ pending > 0
    /\ EventLoopFree
    /\ pending' = pending - 1
    /\ LET target_count == MODE_PRESS_COUNT(target_mode)
           current_count == current_mode_press_count
           needed == presses_needed(current_count, target_count)
           frame == [NewFrame("set_mode") EXCEPT !.mode = target_mode,
                                                 !.presses_needed = needed] IN
       IF needed > 0
       THEN /\ h' = [h EXCEPT ![FreeSlot] =
                        [frame EXCEPT !.pc = "press", !.count = needed]]
            /\ last' = IdleFrame
       ELSE /\ last' = Returned(
                   [frame EXCEPT !.action = "mode_already_set",
                                 !.r_mode = LightModeValue(target_mode),
                                 !.r_total = current_mode_press_count])
            /\ UNCHANGED h
    /\ UNCHANGED <<current_mode_press_count, last_color_pressed, state_file,
                   device, sm>>
    /\ UNCHANGED <<tmp_file, GPIO_AVAILABLE>>

\* POST /reset: reset calls set_mode(OFF) first.
reset_system ==
    /\ pending > 0
    /\ EventLoopFree
    /\ pending' = pending - 1
    /\ LET target_count == MODE_PRESS_COUNT("OFF")
           current_count == current_mode_press_count
           needed == presses_needed(current_count, target_count)
           frame == [NewFrame("reset_system") EXCEPT !.mode = "OFF",
                                                     !.presses_needed = needed] IN
       h' = [h EXCEPT ![FreeSlot] =
                IF needed > 0
                THEN [frame EXCEPT !.pc = "press", !.count = needed]
                ELSE [frame EXCEPT !.pc = "reset_clear"]]
    /\ last' = IdleFrame
    /\ UNCHANGED <<current_mode_press_count, last_color_pressed, state_file,
                   device, sm>>
    /\ UNCHANGED <<tmp_file, GPIO_AVAILABLE>>

\* press_mode_switch: one turn of the loop, the pulse on the mode pin and
\* the advance of the position.
Press_saving(r) ==
    /\ h[r].pc = "press"
    /\ h[r].i < h[r].count
    /\ device' = advance(device)
    /\ current_mode_press_count' = advance(current_mode_press_count)
    /\ LET count == PyInt(advance(current_mode_press_count))
           color == color_value(last_color_pressed) IN
       /\ state_file' = save_state_file(count, color)
       /\ h' = [h EXCEPT ![r].i = @ + 1,
                         ![r].log = @ \o <<PulseEvent(PIN_SW4_MODE),
                                           SaveEvent(count, color)>>]
    /\ UNCHANGED <<last_color_pressed, pending, last, sm>>
    /\ UNCHANGED <<tmp_file, GPIO_AVAILABLE>>

Press(r) ==
    /\ h[r].pc = "press"
    /\ h[r].i < h[r].count
    /\ device' = advance(device)
    /\ current_mode_press_count' = advance(current_mode_press_count)
    /\ h' = [h EXCEPT ![r].i = @ + 1,
                      ![r].log = Append(@, PulseEvent(PIN_SW4_MODE)),
                      ![r].elapsed =
                          @ + button_press_time(GPIO_AVAILABLE, DEFAULT_DURATION)
                            + (IF h[r].i < h[r].count - 1
                               THEN INTER_PRESS_DELAY ELSE 0)]
    /\ UNCHANGED <<last_color_pressed, state_file, pending, last, sm>>
    /\ UNCHANGED <<tmp_file, GPIO_AVAILABLE>>

\* press_mode_switch after the loop: the mode's name, save_state and the
\* returned record; reset goes on from there.
ModeSave(r) ==
    /\ h[r].pc = "press"
    /\ h[r].i = h[r].count
    /\ LET current_mode == PRESS_COUNT_TO_MODE(current_mode_press_count)
           count == PyInt(current_mode_press_count)
           color == color_value(last_color_pressed)
           done == [h[r] EXCEPT !.log = Append(@, SaveEvent(count, color)),
                                !.action = "mode_switch_pressed",
                                !.r_press_count = h[r].count,
                                !.r_total = current_mode_press_count,
                                !.r_mode = LightModeValue(current_mode),
                                !.r_pin = PIN_SW4_MODE] IN
       IF current_mode = "KeyError"
       THEN \* the handler answers 500
            /\ last' = Returned([h[r] EXCEPT !.action = "http_500"])
            /\ h' = [h EXCEPT ![r] = IdleFrame]
            /\ UNCHANGED <<state_file, tmp_file>>
       ELSE /\ state_file' = save_state_file(count, color)
            /\ tmp_file' = AbsentFile
            /\ IF h[r].op = "reset_system"
               THEN /\ h' = [h EXCEPT ![r] = [done EXCEPT !.pc = "reset_clear"]]
                    /\ UNCHANGED last
               ELSE /\ h' = [h EXCEPT ![r] = IdleFrame]
                    /\ last' = Returned(done)
    /\ UNCHANGED <<current_mode_press_count, last_color_pressed, device, pending, sm>>
    /\ UNCHANGED GPIO_AVAILABLE

\* The position reset leaves in memory after set_mode(OFF) put it at 6.
reset_press_count_kept(current_count) == current_count

reset_press_count(current_count) == 0

\* reset after set_mode(OFF): the memory is reset, the state file cleared.
ResetClear(r) ==
    /\ h[r].pc = "reset_clear"
    /\ current_mode_press_count' = reset_press_count(current_mode_press_count)
    /\ last_color_pressed' = NoColor
    /\ state_file' = clear_state_file(state_file)
    /\ device' = 0
    /\ last' = Returned(
           [h[r] EXCEPT !.log = Append(@, ClearEvent),
                        !.action = "system_reset",
                        !.r_press_count = 0,
                        !.r_pin = 0,
                        !.r_mode = "",
                        !.r_total = 0])
    /\ h' = [h EXCEPT ![r] = IdleFrame]
    /\ UNCHANGED <<pending, sm>>
    /\ UNCHANGED <<tmp_file, GPIO_AVAILABLE>>

\* GET /status.
get_status_saving ==
    /\ pending > 0
    /\ EventLoopFree
    /\ pending' = pending - 1
    /\ LET count == PyInt(current_mode_press_count)
           color == color_value(last_color_pressed) IN
       /\ state_file' = save_state_file(count, color)
       /\ last' = Returned(
              [NewFrame("get_status") EXCEPT
                  !.action = "status",
                  !.log = <<SaveEvent(count, color)>>,
                  !.r_total = current_mode_press_count])
    /\ UNCHANGED <<current_mode_press_count, last_color_pressed, device, h, sm>>
    /\ UNCHANGED <<tmp_file, GPIO_AVAILABLE>>

get_status ==
    /\ pending > 0
    /\ EventLoopFree
    /\ pending' = pending - 1
    /\ LET current_mode == PRESS_COUNT_TO_MODE(current_mode_press_count) IN
       last' = Returned(
           [NewFrame("get_status") EXCEPT
               !.action = "status",
               !.r_total = current_mode_press_count,
               !.r_mode = IF current_mode = "KeyError" THEN "None"
                          ELSE LightModeValue(current_mode),
               !.r_color = IF last_color_pressed = NoColor THEN "None"
                           ELSE LightColorValue(last_color_pressed)])
    /\ UNCHANGED <<current_mode_press_count, last_color_pressed, state_file,
                   device, h, sm>>
    /\ UNCHANGED <<tmp_file, GPIO_AVAILABLE>>

\* ModePressRequest.count: ge=1, le=6.
ModePressCounts == 1..6

Next ==
    \/ Arrive
    \/ \E color \in LightColor : set_color(color)
    \/ \E count \in ModePressCounts : press_mode_button(count)
    \/ \E target_mode \in LightMode : set_mode(target_mode)
    \/ reset_system
    \/ get_status
    \/ \E r \in Handlers : ColorPulse(r)
    \/ \E r \in Handlers : ColorSave(r)
    \/ \E r \in Handlers : Press(r)
    \/ \E r \in Handlers : ModeSave(r)
    \/ \E r \in Handlers : ResetClear(r)

Spec == Init /\ [][Next]_vars


\* ------------------------------------------------- crash and restart
\* The process dies wherever it is and is started again: the handlers and
\* the waiting requests are gone, the controller is constructed anew from
\* the state file. The lights keep the position the pulses gave them.
CrashRestart ==
    /\ current_mode_press_count' = Construct(state_file).current_mode_press_count
    /\ last_color_pressed' = Construct(state_file).last_color_pressed
    /\ h' = [r \in Handlers |-> IdleFrame]
    /\ pending' = 0
    /\ last' = Returned([NewFrame("restart") EXCEPT !.prev_op = "none",
                                                    !.prev_mode = "none"])
    /\ UNCHANGED <<state_file, device, sm>>
    /\ UNCHANGED <<tmp_file, GPIO_AVAILABLE>>

FaultNext ==
    \/ Next
    \/ CrashRestart

FaultSpec == Init /\ [][FaultNext]_vars

\* ------------------------------------------- failing I/O in the engine
\* What save_state gives its caller: True, or False from its `except
\* Exception` when the file system refuses.
save_state_unguarded(io_ok) == IF io_ok THEN "True" ELSE "raise"

save_state_result(io_ok) == IF io_ok THEN "True" ELSE "False"

\* press_color_switch when save_state fails (the temporary file cannot be
\* opened): the result is not looked at.
ColorSaveFails(r) ==
    /\ h[r].pc = "color_save"
    /\ last_color_pressed # NoColor
    /\ LET count == PyInt(current_mode_press_count)
           color == PyStr(LightColorValue(last_color_pressed)) IN
       /\ UNCHANGED tmp_file
       /\ last' = Returned(
              IF save_state_result(FALSE) = "raise"
              THEN [h[r] EXCEPT !.log = Append(@, SaveFailedEvent(count, color)),
                                !.action = "http_500"]
              ELSE [h[r] EXCEPT !.log = Append(@, SaveFailedEvent(count, color)),
                                !.action = "color_switch_pressed",
                                !.r_color = LightColorValue(h[r].color),
                                !.r_pin = pin_map(h[r].color)])
    /\ h' = [h EXCEPT ![r] = IdleFrame]
    /\ UNCHANGED <<current_mode_press_count, last_color_pressed, state_file,
                   device, pending, sm, GPIO_AVAILABLE>>

\* press_mode_switch when save_state fails: the result is not looked at.
ModeSaveFails(r) ==
    /\ h[r].pc = "press"
    /\ h[r].i = h[r].count
    /\ PRESS_COUNT_TO_MODE(current_mode_press_count) # "KeyError"
    /\ LET current_mode == PRESS_COUNT_TO_MODE(current_mode_press_count)
           count == PyInt(current_mode_press_count)
           color == color_value(last_color_pressed)
           done == [h[r] EXCEPT !.log = Append(@, SaveFailedEvent(count, color)),
                                !.action = "mode_switch_pressed",
                                !.r_press_count = h[r].count,
                                !.r_total = current_mode_press_count,
                                !.r_mode = LightModeValue(current_mode),
                                !.r_pin = PIN_SW4_MODE] IN
       /\ UNCHANGED tmp_file
       /\ IF save_state_result(FALSE) = "raise"
          THEN /\ h' = [h EXCEPT ![r] = IdleFrame]
               /\ last' = Returned([done EXCEPT !.action = "http_500"])
          ELSE IF h[r].op = "reset_system"
          THEN /\ h' = [h EXCEPT ![r] = [done EXCEPT !.pc = "reset_clear"]]
               /\ UNCHANGED last
          ELSE /\ h' = [h EXCEPT ![r] = IdleFrame]
               /\ last' = Returned(done)
    /\ UNCHANGED <<current_mode_press_count, last_color_pressed, state_file,
                   device, pending, sm, GPIO_AVAILABLE>>

\* GPIO.output raises inside a pulse of the press loop: the exception leaves
\* press_mode_switch (and set_mode, and reset) and the handler answers 500.
\* The presses already made stay counted; nothing is saved.
PressRaises(r) ==
    /\ GPIO_AVAILABLE
    /\ h[r].pc = "press"
    /\ h[r].i < h[r].count
    /\ last' = Returned([h[r] EXCEPT !.action = "http_500"])
    /\ h' = [h EXCEPT ![r] = IdleFrame]
    /\ UNCHANGED <<current_mode_press_count, last_color_pressed, state_file,
                   device, pending, sm, tmp_file, GPIO_AVAILABLE>>

\* GPIO.output raises inside the color pulse: memory is not yet touched.
ColorPulseRaises(r) ==
    /\ GPIO_AVAILABLE
    /\ h[r].pc = "color_pulse"
    /\ last' = Returned([h[r] EXCEPT !.action = "http_500"])
    /\ h' = [h EXCEPT ![r] = IdleFrame]
    /\ UNCHANGED <<current_mode_press_count, last_color_pressed, state_file,
                   device, pending, sm, tmp_file, GPIO_AVAILABLE>>

SaveFaultNext ==
    \/ Next
    \/ \E r \in Handlers : ColorSaveFails(r)
    \/ \E r \in Handlers : ModeSaveFails(r)

PulseFaultNext ==
    \/ Next
    \/ \E r \in Handlers : PressRaises(r)
    \/ \E r \in Handlers : ColorPulseRaises(r)

\* The state files the failing runs start from: none, and three that an
\* earlier run of the program wrote.
IOFaultFiles ==
    {AbsentFile,
     save_state_file(PyInt(0), PyStr("red")),
     save_state_file(PyInt(1), PyNone),
     save_state_file(PyInt(5), PyStr("green"))}

IOFaultInit ==
    /\ Init
    /\ state_file \in IOFaultFiles

SaveFaultSpec == IOFaultInit /\ [][SaveFaultNext]_vars

PulseFaultSpec == IOFaultInit /\ [][PulseFaultNext]_vars

\* ------------------------------------------- the StateManager on its own
\* The arguments save_state is called with.
SaveCounts == 0..6
SaveColors == {PyNone} \cup {PyStr(LightColorValue(c)) : c \in LightColor}

sm_save_state(count, color) ==
    /\ state_file' = save_state_file(PyInt(count), color)
    /\ sm' = [NoStoreCall EXCEPT !.call = "save", !.count = PyInt(count),
                                 !.color = color, !.ok = TRUE,
                                 !.before = state_file]
    /\ UNCHANGED <<current_mode_press_count, last_color_pressed, device,
                   pending, h, last>>
    /\ tmp_file' = AbsentFile
    /\ UNCHANGED GPIO_AVAILABLE

sm_load_state ==
    /\ sm' = [sm EXCEPT !.call = "load", !.ret = load_state(state_file),
                        !.prev = sm.call, !.prev_count = sm.count,
                        !.prev_color = sm.color]
    /\ UNCHANGED <<current_mode_press_count, last_color_pressed, state_file,
                   device, pending, h, last>>
    /\ UNCHANGED <<tmp_file, GPIO_AVAILABLE>>

sm_clear_state ==
    /\ state_file' = clear_state_file(state_file)
    /\ sm' = [NoStoreCall EXCEPT !.call = "clear",
                                 !.ok = clear_state_result(state_file),
                                 !.before = state_file,
                                 !.prev = sm.call,
                                 !.prev_ok = sm.ok]
    /\ UNCHANGED <<current_mode_press_count, last_color_pressed, device,
                   pending, h, last>>
    /\ UNCHANGED <<tmp_file, GPIO_AVAILABLE>>

StoreNext ==
    \/ \E count \in SaveCounts, color \in SaveColors : sm_save_state(count, color)
    \/ sm_load_state
    \/ sm_clear_state

StoreSpec == Init /\ [][StoreNext]_vars

\* ------------------------------- save_state step by step, with crashes
\* The two paths save_state touches.
state_file_path == "state.json"

temp_file_in_place == "state.json"

temp_file == "state.json.tmp"

\* The files after `content` is written to `path`.
FilesAfterWrite(path, content) ==
    [target |-> IF path = state_file_path THEN content ELSE state_file,
     tmp |-> IF path = state_file_path THEN tmp_file ELSE content]

\* The files after os.replace(src, state_file).
FilesAfterReplace(src) ==
    IF src = state_file_path
    THEN [target |-> state_file, tmp |-> tmp_file]
    ELSE [target |-> tmp_file, tmp |-> AbsentFile]

\* open(temp_file, 'w'): the file exists and is empty, which is no JSON.
sm_save_open(count, color) ==
    /\ sm.pc \notin {"opened", "written"}
    /\ LET files == FilesAfterWrite(temp_file, GarbageFile) IN
       /\ state_file' = files.target
       /\ tmp_file' = files.tmp
    /\ sm' = [NoStoreCall EXCEPT !.call = "save", !.count = PyInt(count),
                                 !.color = color, !.before = state_file,
                                 !.pc = "opened"]
    /\ UNCHANGED <<current_mode_press_count, last_color_pressed, device,
                   pending, h, last, GPIO_AVAILABLE>>

\* json.dump(state_data, f) and the close of the file.
sm_save_dump ==
    /\ sm.pc = "opened"
    /\ LET files == FilesAfterWrite(temp_file, save_state_file(sm.count, sm.color)) IN
       /\ state_file' = files.target
       /\ tmp_file' = files.tmp
    /\ sm' = [sm EXCEPT !.pc = "written"]
    /\ UNCHANGED <<current_mode_press_count, last_color_pressed, device,
                   pending, h, last, GPIO_AVAILABLE>>

\* os.replace(temp_file, self.state_file) and `return True`.
sm_save_replace ==
    /\ sm.pc = "written"
    /\ LET files == FilesAfterReplace(temp_file) IN
       /\ state_file' = files.target
       /\ tmp_file' = files.tmp
    /\ sm' = [sm EXCEPT !.pc = "saved", !.ok = TRUE]
    /\ UNCHANGED <<current_mode_press_count, last_color_pressed, device,
                   pending, h, last, GPIO_AVAILABLE>>

\* The process dies inside save_state; the files stay as they are.
sm_crash ==
    /\ sm.pc \in {"opened", "written"}
    /\ sm' = [sm EXCEPT !.pc = IF sm.pc = "opened" THEN "crashed_in_dump"
                                ELSE "crashed_before_replace"]
    /\ UNCHANGED <<current_mode_press_count, last_color_pressed, state_file,
                   device, pending, h, last, tmp_file, GPIO_AVAILABLE>>

StoreCrashNext ==
    \/ \E count \in SaveCounts, color \in SaveColors : sm_save_open(count, color)
    \/ sm_save_dump
    \/ sm_save_replace
    \/ sm_crash

StoreCrashSpec == Init /\ [][StoreCrashNext]_vars

\* ---------------------------------- save_state refused by the file system
\* open(temp_file, 'w') raises: nothing was written, the `except` answers
\* False.
sm_save_open_fails(count, color) ==
    /\ sm.pc \notin {"opened", "written"}
    /\ sm' = [NoStoreCall EXCEPT !.call = "save", !.count = PyInt(count),
                                 !.color = color, !.before = state_file,
                                 !.pc = "failed", !.ok = FALSE]
    /\ UNCHANGED <<current_mode_press_count, last_color_pressed, state_file,
                   device, pending, h, last, tmp_file, GPIO_AVAILABLE>>

\* json.dump raises (the torn temporary file stays) or os.replace raises (the
\* whole temporary file stays): the `except` answers False and removes
\* nothing.
sm_save_fails ==
    /\ sm.pc \in {"opened", "written"}
    /\ sm' = [sm EXCEPT !.pc = "failed", !.ok = FALSE]
    /\ UNCHANGED <<current_mode_press_count, last_color_pressed, state_file,
                   device, pending, h, last, tmp_file, GPIO_AVAILABLE>>

\* load_state called once save_state has returned.
sm_load_after_save ==
    /\ sm.call = "save"
    /\ sm.pc \in {"saved", "failed"}
    /\ sm_load_state

\* The arguments of the refused saves: both ends of the range and one
\* position between, with and without a color.
FaultSaveCounts == {0, 2, 6}
FaultSaveColors == {PyNone, PyStr("red")}

\* The files the refused saves find: none, one that is no JSON, and three
\* that an earlier run wrote.
StoreFaultInit ==
    /\ Init
    /\ state_file \in IOFaultFiles \cup {GarbageFile}

StoreFaultNext ==
    \/ \E count \in FaultSaveCounts, color \in FaultSaveColors :
           sm_save_open(count, color)
    \/ \E count \in FaultSaveCounts, color \in FaultSaveColors :
           sm_save_open_fails(count, color)
    \/ sm_save_dump
    \/ sm_save_replace
    \/ sm_save_fails
    \/ sm_load_after_save

StoreFaultSpec == StoreFaultInit /\ [][StoreFaultNext]_vars

\* ---------------------------------------------------------------- the claims
MutatingOps == {"set_color", "press_mode_button", "set_mode", "reset_system"}

\* The call that returned last, when it is a completed call of handler op.
ReturnedFrom(op) ==
    last.pc = "returned" /\ last.op = op /\ last.action # "http_500"

\* The pins pulsed by a call, in order.
PinsPulsed(log) ==
    LET pulsed == SelectSeq(log, LAMBDA ev : ev.e = "pulse") IN
    [k \in 1..Len(pulsed) |-> pulsed[k].pin]

\* k pulses on the mode pin and nothing else.
ModePinTimes(k) == [j \in 1..k |-> 22]

RECURSIVE CyclicAdvances(_, _)
CyclicAdvances(p, k) == IF k = 0 THEN p ELSE CyclicAdvances((p % 6) + 1, k - 1)

\* The press count the documentation gives each mode name.
CountOfName(name) ==
    CASE name = "breathe_colors"   -> 1
      [] name = "color_duration"   -> 2
      [] name = "track_direction"  -> 3
      [] name = "circular_pattern" -> 4
      [] name = "white_mode"       -> 5
      [] name = "off"              -> 6
      [] OTHER                     -> -1

TargetCount(frame) == CountOfName(LightModeValue(frame.mode))

\* C1: set_mode(target) called at a position in 1..6 computes between 0 and 5
\* presses, that many cyclic advances lead from the starting position to the
\* target's press count, and the engine's position is the target's press
\* count when the call returns.
C1_SetModeReachesTarget ==
    (ReturnedFrom("set_mode") /\ last.p0 \in 1..6) =>
        /\ last.presses_needed \in 0..5
        /\ CyclicAdvances(last.p0, last.presses_needed) = TargetCount(last)
        /\ PinsPulsed(last.log) = ModePinTimes(last.presses_needed)
        /\ current_mode_press_count = TargetCount(last)

\* The scenario of the documentation: from white_mode (5) to color_duration
\* (2) by three presses, wrapping past 6.
C1_Witness ==
    /\ ReturnedFrom("set_mode")
    /\ last.p0 = 5
    /\ last.mode = "COLOR_DURATION"
    /\ last.presses_needed = 3
    /\ current_mode_press_count = 2

\* C2: set_mode(target) called at position 0 pulses the mode pin exactly
\* target_count times (and no other pin) and returns with the position at
\* target_count and current_mode the target's name.
C2_SetModeFromZero ==
    (ReturnedFrom("set_mode") /\ last.p0 = 0) =>
        /\ PinsPulsed(last.log) = ModePinTimes(TargetCount(last))
        /\ current_mode_press_count = TargetCount(last)
        /\ CountOfName(last.r_mode) = TargetCount(last)
        /\ last.r_total = TargetCount(last)

\* Fresh start, no state file, set_mode(white_mode): five pulses.
C2_Witness ==
    /\ ReturnedFrom("set_mode")
    /\ last.p0 = 0
    /\ last.f0 = AbsentFile
    /\ last.mode = "WHITE_MODE"
    /\ Len(last.log) = 6
    /\ last.r_mode = "white_mode"
    /\ current_mode_press_count = 5

\* C3: press_mode(count) started at position p pulses the mode pin exactly
\* count times and returns with the position at ((p + count - 1) mod 6) + 1,
\* which is the total_mode_presses it reports, with current_mode the name of
\* that position.
C3_PressModeAdvances ==
    ReturnedFrom("press_mode_button") =>
        /\ last.count >= 1
        /\ PinsPulsed(last.log) = ModePinTimes(last.count)
        /\ current_mode_press_count = ((last.p0 + last.count - 1) % 6) + 1
        /\ last.r_total = current_mode_press_count
        /\ last.r_press_count = last.count
        /\ CountOfName(last.r_mode) = current_mode_press_count

\* Position 3, press_mode(4): 3 -> 4 -> 5 -> 6 -> 1.
C3_Witness ==
    /\ ReturnedFrom("press_mode_button")
    /\ last.p0 = 3
    /\ last.count = 4
    /\ current_mode_press_count = 1
    /\ last.r_total = 1
    /\ last.r_mode = "breathe_colors"

\* C4: set_mode(m) called while the position is already m's press count (as
\* it is on the second of two consecutive set_mode(m) calls) computes 0
\* presses, pulses no pin, leaves position, last color and state file as
\* they were and returns action mode_already_set.
C4_SetModeIdempotent ==
    (ReturnedFrom("set_mode") /\
        (last.p0 = TargetCount(last)
            \/ (last.prev_op = "set_mode" /\ last.prev_mode = last.mode))) =>
        /\ last.p0 = TargetCount(last)
        /\ last.presses_needed = 0
        /\ last.log = <<>>
        /\ current_mode_press_count = last.p0
        /\ last_color_pressed = last.c0
        /\ state_file = last.f0
        /\ last.action = "mode_already_set"
        /\ last.r_mode = LightModeValue(last.mode)
        /\ last.r_total = last.p0

\* The second of two consecutive set_mode(off) calls.
C4_Witness ==
    /\ ReturnedFrom("set_mode")
    /\ last.prev_op = "set_mode"
    /\ last.prev_mode = "OFF"
    /\ last.mode = "OFF"
    /\ last.action = "mode_already_set"
    /\ last.log = <<>>

\* C5: press_color(color) pulses once the pin bound to the color, never the
\* mode pin, and returns with position 0 and last color = color in memory
\* and in the state file.
C5_PressColor ==
    ReturnedFrom("set_color") =>
        /\ PinsPulsed(last.log) =
               << CASE last.color = "RED"    -> 17
                    [] last.color = "GREEN"  -> 18
                    [] last.color = "YELLOW" -> 27 >>
        /\ current_mode_press_count = 0
        /\ last_color_pressed = last.color
        /\ last.log[Len(last.log)] = SaveEvent(PyInt(0), PyStr(LightColorValue(last.color)))
        /\ load_state(state_file) =
               [current_mode_press_count |-> PyInt(0),
                last_color_pressed |-> PyStr(LightColorValue(last.color))]

\* Position 5 and green, press red.
C5_Witness ==
    /\ ReturnedFrom("set_color")
    /\ last.p0 = 5
    /\ last.c0 = "GREEN"
    /\ last.color = "RED"
    /\ current_mode_press_count = 0
    /\ last_color_pressed = "RED"

\* C6: reset() returns with the state file absent and position 0, no color
\* in memory, whatever the position and color it started from.
C6_Reset ==
    ReturnedFrom("reset_system") =>
        /\ state_file.kind = "absent"
        /\ current_mode_press_count = 0
        /\ last_color_pressed = NoColor

\* Reset from position 3 with a color recorded and a state file present.
C6_Witness ==
    /\ ReturnedFrom("reset_system")
    /\ last.p0 = 3
    /\ last.c0 = "YELLOW"
    /\ last.f0.kind = "object"
    /\ state_file.kind = "absent"


\* The string the state file holds for a color of the engine's memory.
StoredColor(c) ==
    CASE c = "RED"    -> PyStr("red")
      [] c = "GREEN"  -> PyStr("green")
      [] c = "YELLOW" -> PyStr("yellow")
      [] OTHER        -> PyNone

\* What load() returns now is the engine's memory.
LoadIsMemory ==
    LET loaded == load_state(state_file) IN
    /\ isinstance_int(loaded.current_mode_press_count)
    /\ loaded.current_mode_press_count.n = current_mode_press_count
    /\ loaded.last_color_pressed = StoredColor(last_color_pressed)

\* The call wrote or cleared the state file.
WroteStore(frame) ==
    \E k \in 1..Len(frame.log) : frame.log[k].e \in {"save", "clear"}

\* C7 as stated: right after every mutating call that returns successfully,
\* load() returns the engine's in-memory position and color.
C7_MirrorAfterEveryCall ==
    (\E op \in MutatingOps : ReturnedFrom(op)) => LoadIsMemory

\* C7 as amended: right after every mutating call that wrote or cleared the
\* state file, load() returns the engine's in-memory position and color.
C7_MirrorAfterWrite ==
    ((\E op \in MutatingOps : ReturnedFrom(op)) /\ WroteStore(last)) => LoadIsMemory

\* A press_mode that wrapped, with a color recorded, has returned.
C7_Witness ==
    /\ ReturnedFrom("press_mode_button")
    /\ WroteStore(last)
    /\ last.c0 = "GREEN"
    /\ last.p0 = 5
    /\ current_mode_press_count = 2
    /\ LoadIsMemory

\* C8: after a restart, wherever the crash fell, the position the new engine
\* loaded is the position the delivered mode pulses left the lights in.
C8_RestartInSync ==
    (last.pc = "returned" /\ last.op = "restart") =>
        current_mode_press_count = device

\* The effect of one call run alone from the state it started in.
SerialPosition(frame) ==
    CASE frame.op = "set_color"         -> 0
      [] frame.op = "press_mode_button" -> CyclicAdvances(frame.p0, frame.count)
      [] frame.op = "set_mode"          -> TargetCount(frame)
      [] frame.op = "reset_system"      -> 0
      [] OTHER                          -> frame.p0

SerialColor(frame) ==
    CASE frame.op = "set_color"    -> frame.color
      [] frame.op = "reset_system" -> NoColor
      [] OTHER                     -> frame.c0

\* C9: at most one handler is in flight; a handler in its press loop sees
\* the position its own pulses produced; and every mutating call returns
\* with memory and state file as running it alone from its starting state
\* leaves them.
C9_Serialized ==
    /\ Cardinality({r \in Handlers : h[r].pc # "idle"}) <= 1
    /\ \A r \in Handlers :
           h[r].pc = "press" =>
               /\ current_mode_press_count = CyclicAdvances(h[r].p0, h[r].i)
               /\ last_color_pressed = h[r].c0
               /\ state_file = h[r].f0
    /\ (last.pc = "returned" /\ last.op \in MutatingOps) =>
           /\ last.action # "http_500"
           /\ current_mode_press_count = SerialPosition(last)
           /\ last_color_pressed = SerialColor(last)
           /\ IF WroteStore(last) THEN LoadIsMemory ELSE state_file = last.f0

\* A second request has arrived while a press sequence is part-way.
C9_Witness ==
    \E r \in Handlers :
        /\ h[r].pc = "press"
        /\ h[r].i >= 1
        /\ h[r].i < h[r].count
        /\ pending >= 1

\* C10: load() right after save(p, c) returns (p, c), whatever the file held
\* before the save.
C10_SaveLoadRoundTrip ==
    (sm.call = "load" /\ sm.prev = "save") =>
        sm.ret = [current_mode_press_count |-> sm.prev_count,
                  last_color_pressed |-> sm.prev_color]

\* save(0, "yellow") over a file that was no JSON, then load().
C10_Witness ==
    /\ sm.call = "load"
    /\ sm.prev = "save"
    /\ sm.before = GarbageFile
    /\ sm.prev_count = PyInt(0)
    /\ sm.prev_color = PyStr("yellow")
    /\ sm.ret.last_color_pressed = PyStr("yellow")


\* The file holds the documented layout's position: a JSON integer in 0..6.
HoldsPosition(file) ==
    /\ file.kind = "object"
    /\ file.count.t = "number"
    /\ file.count.n \in 0..6

\* C11: load() returns the default (0, None), color discarded, whenever the
\* file is absent, is no JSON object, lacks current_mode_press_count or holds
\* one that is not an integer in 0..6.
\* (A returned False counts as the default's 0: Python compares them equal.)
C11_LoadDefaultsOnCorruption ==
    (sm.call = "load" /\ ~HoldsPosition(state_file)) =>
        /\ sm.ret.current_mode_press_count.t \in {"int", "bool"}
        /\ sm.ret.current_mode_press_count.n = 0
        /\ sm.ret.last_color_pressed = PyNone


\* C12: from the moment a save begins, at every step of it and after a crash
\* inside it, the target file is either the complete file it was before the
\* save or the complete new one, so a load() sees the previous state or the
\* new state, never a partial file nor a file gone missing.
C12_SaveAtomic ==
    (sm.call = "save" /\ sm.pc # "idle") =>
        /\ state_file \in {sm.before, save_state_file(sm.count, sm.color)}
        /\ load_state(state_file) \in
               {load_state(sm.before),
                [current_mode_press_count |-> sm.count,
                 last_color_pressed |-> sm.color]}
        /\ sm.pc = "saved" =>
               load_state(state_file) =
                   [current_mode_press_count |-> sm.count,
                    last_color_pressed |-> sm.color]

\* A crash after the temporary file was written and before the replace: the
\* target still holds the previous, different state.
C12_Witness ==
    /\ sm.call = "save"
    /\ sm.pc = "crashed_before_replace"
    /\ sm.before = ObjectFile(JNumber(5), JString("green"), JString("iso"))
    /\ sm.count = PyInt(2)
    /\ sm.color = PyStr("red")
    /\ tmp_file = save_state_file(sm.count, sm.color)
    /\ state_file = sm.before


SaveFailedIn(log) == \E k \in 1..Len(log) : log[k].e = "save_failed"

\* C13: when save_state fails inside press_color, press_mode or set_mode, the
\* call still returns its normal success record, the memory holds the values
\* the operation produces (nothing is rolled back), the state file is the one
\* the call started with, and no error reaches the caller.
C13_SaveFailureSwallowed ==
    (/\ last.pc = "returned"
     /\ last.op \in {"set_color", "press_mode_button", "set_mode"}
     /\ SaveFailedIn(last.log)) =>
        /\ last.action = IF last.op = "set_color" THEN "color_switch_pressed"
                         ELSE "mode_switch_pressed"
        /\ current_mode_press_count = SerialPosition(last)
        /\ last_color_pressed = SerialColor(last)
        /\ last.op # "set_color" => last.r_total = SerialPosition(last)
        /\ state_file = last.f0

\* set_mode(track_direction) from position 1 with a failing save: two
\* presses, memory at 3, the file still saying 1.
C13_Witness ==
    /\ last.pc = "returned"
    /\ last.op = "set_mode"
    /\ last.mode = "TRACK_DIRECTION"
    /\ last.p0 = 1
    /\ SaveFailedIn(last.log)
    /\ last.action = "mode_switch_pressed"
    /\ current_mode_press_count = 3
    /\ state_file = ObjectFile(JNumber(1), JNull, JString("iso"))


\* The counts a call handed to save_state.
CountsWritten(log) ==
    {log[k].count : k \in {j \in 1..Len(log) : log[j].e = "save"}}

\* C14: in every reachable state, whatever the state file held at
\* construction and whatever was called since, the position in memory is an
\* integer in 0..6, the color in memory is red, green, yellow or None, and
\* every count handed to the store is an integer in 0..6.
C14_StateInRange ==
    /\ current_mode_press_count \in 0..6
    /\ last_color_pressed \in LightColor \cup {NoColor}
    /\ device \in 0..6
    /\ \A count \in CountsWritten(last.log) : count.t = "int" /\ count.n \in 0..6
    /\ \A r \in Handlers :
           \A count \in CountsWritten(h[r].log) : count.t = "int" /\ count.n \in 0..6
    /\ \A r \in Handlers :
           h[r].pc # "idle" => h[r].p0 \in 0..6 /\ h[r].c0 \in LightColor \cup {NoColor}

\* Constructed from a file with position 99 and the color "blue", then two
\* presses of the mode button: the call started at (0, None) and wrote 2.
C14_Witness ==
    /\ ReturnedFrom("press_mode_button")
    /\ last.f0 = ObjectFile(JNumber(99), JString("blue"), JString("iso"))
    /\ last.p0 = 0
    /\ last.c0 = NoColor
    /\ last.count = 2
    /\ CountsWritten(last.log) = {PyInt(2)}
    /\ current_mode_press_count = 2


\* C15: get_status is a pure read: it pulses no pin and takes no pulse's
\* time, leaves the position and the color in memory as they were, and
\* neither writes nor removes the state file.
C15_GetStatusPure ==
    ReturnedFrom("get_status") =>
        /\ last.log = <<>>
        /\ last.elapsed = 0
        /\ current_mode_press_count = last.p0
        /\ last_color_pressed = last.c0
        /\ state_file = last.f0
        /\ last.r_total = last.p0

\* A status read at position 3 with red remembered, after the state file
\* was written by the calls before it.
C15_Witness ==
    /\ ReturnedFrom("get_status")
    /\ last.p0 = 3
    /\ last.c0 = "RED"
    /\ last.r_mode = "track_direction"
    /\ last.r_color = "red"
    /\ state_file = ObjectFile(JNumber(3), JString("red"), JString("iso"))


\* C16: clear() answers success and leaves no state file, whether or not
\* one existed; a clear() right after a clear() finds the file absent,
\* leaves it absent and answers what the first one answered.
C16_ClearIdempotent ==
    /\ sm.call = "clear" => sm.ok /\ state_file = AbsentFile
    /\ (sm.call = "clear" /\ sm.prev = "clear") =>
           /\ sm.before = AbsentFile
           /\ state_file = sm.before
           /\ sm.ok = sm.prev_ok

\* The second of two clears in a row.
C16_Witness ==
    /\ sm.call = "clear"
    /\ sm.prev = "clear"
    /\ sm.before = AbsentFile
    /\ sm.ok
    /\ state_file = AbsentFile


\* C17: when a failure breaks off an engine operation (the handler answers
\* 500), the position in memory is the one from before the operation or the
\* one the complete operation gives, never one in between.
C17_NoPartialUpdate ==
    (/\ last.pc = "returned"
     /\ last.op \in MutatingOps
     /\ last.action = "http_500") =>
        current_mode_press_count \in {last.p0, SerialPosition(last)}


\* The time n pulses of one call take on the hardware path: each the hold
\* and the settle delay, with the loop's pause between two presses.
HardwareTime(n) ==
    n * (DEFAULT_DURATION + SETTLE_DELAY)
        + (IF n > 1 THEN (n - 1) * INTER_PRESS_DELAY ELSE 0)

\* C18: a pulse takes the same time without hardware as with it, the hold
\* duration plus the 0.1 s settle delay, so every call's press sequence
\* takes the hardware path's time in both modes.
C18_SimulationTimingEqual ==
    (last.pc = "returned" /\ last.op \in MutatingOps) =>
        last.elapsed = HardwareTime(Len(PinsPulsed(last.log)))


\* C19: the set_mode(target) that follows a returned reset takes the
\* position-0 path whatever the state before the reset was: it starts at
\* position 0, pulses the mode pin exactly target_count times (6 for off,
\* never 0 and never a wrap computed from position 6) and ends at
\* target_count.
C19_SetModeAfterReset ==
    /\ \A r \in Handlers :
           (h[r].op = "set_mode" /\ h[r].prev_op = "reset_system") =>
               /\ h[r].p0 = 0
               /\ h[r].presses_needed = TargetCount(h[r])
    /\ (ReturnedFrom("set_mode") /\ last.prev_op = "reset_system") =>
           /\ last.p0 = 0
           /\ last.presses_needed = TargetCount(last)
           /\ last.presses_needed \in 1..6
           /\ PinsPulsed(last.log) = ModePinTimes(TargetCount(last))
           /\ current_mode_press_count = TargetCount(last)
           /\ last.action = "mode_switch_pressed"

\* set_mode(off) right after a reset: six pulses, position 6.
C19_Witness ==
    /\ ReturnedFrom("set_mode")
    /\ last.prev_op = "reset_system"
    /\ last.mode = "OFF"
    /\ Len(PinsPulsed(last.log)) = 6
    /\ current_mode_press_count = 6


\* The pulses set_mode(off) needs from position p, as the documentation
\* counts them.
ResetPulses(p) == IF p = 0 THEN 6 ELSE 6 - p

SavesOf(log) == SelectSeq(log, LAMBDA ev : ev.e = "save")

\* C21: press_mode and set_mode never change the remembered color: when
\* either returns, the color in memory is the one from before the call, and
\* what press_mode persisted pairs the final position with that color.
C21_ModeKeepsColor ==
    /\ \A r \in Handlers :
           h[r].op \in {"press_mode_button", "set_mode"} =>
               last_color_pressed = h[r].c0
    /\ (ReturnedFrom("press_mode_button") \/ ReturnedFrom("set_mode")) =>
           /\ last_color_pressed = last.c0
           /\ \A k \in 1..Len(SavesOf(last.log)) :
                  /\ SavesOf(last.log)[k].count = PyInt(current_mode_press_count)
                  /\ SavesOf(last.log)[k].color = StoredColor(last.c0)
           /\ Len(SavesOf(last.log)) > 0 =>
                  state_file = save_state_file(PyInt(current_mode_press_count),
                                               StoredColor(last.c0))
    /\ ReturnedFrom("press_mode_button") => Len(SavesOf(last.log)) = 1

\* Two presses of the mode button with green remembered: the file pairs
\* position 2 with green.
C21_Witness ==
    /\ ReturnedFrom("press_mode_button")
    /\ last.c0 = "GREEN"
    /\ last.p0 = 0
    /\ last.count = 2
    /\ last_color_pressed = "GREEN"
    /\ state_file = ObjectFile(JNumber(2), JString("green"), JString("iso"))


\* C22: when save_state answers False, whether the temporary file could not
\* be opened or written or the replace failed, the state file holds exactly
\* what it held before the call, and a load after it returns what a load
\* before the call would have returned.
C22_FailedSaveKeepsFile ==
    /\ (sm.call = "save" /\ sm.pc = "failed") =>
           /\ ~sm.ok
           /\ state_file = sm.before
    /\ (sm.call = "load" /\ sm.prev = "save" /\ sm.pc = "failed") =>
           /\ state_file = sm.before
           /\ sm.ret = load_state(sm.before)

\* save(2, red) over a file holding (5, green) fails at the replace; the
\* load after it returns (5, green) and the whole temporary file is left.
C22_Witness ==
    /\ sm.call = "load"
    /\ sm.prev = "save"
    /\ sm.pc = "failed"
    /\ sm.prev_count = PyInt(2)
    /\ sm.prev_color = PyStr("red")
    /\ tmp_file = save_state_file(PyInt(2), PyStr("red"))
    /\ sm.before = ObjectFile(JNumber(5), JString("green"), JString("iso"))
    /\ sm.ret = [current_mode_press_count |-> PyInt(5),
                 last_color_pressed |-> PyStr("green")]


\* No pulse follows a save in the log and at most one save is in it.
SaveAfterPulses(log) ==
    /\ Len(SavesOf(log)) <= 1
    /\ \A j \in 1..Len(log) : \A k \in 1..Len(log) :
           (log[j].e = "save" /\ log[k].e = "pulse") => k < j

\* The number of pulses a completed call of the frame's kind emits.
PulsesOwed(frame) ==
    CASE frame.op = "set_color"         -> 1
      [] frame.op = "press_mode_button" -> frame.count
      [] OTHER                          -> frame.presses_needed

\* C23: within every mutating operation the store is written only after
\* all of the operation's pulses: press_color saves after its one pulse,
\* press_mode saves once after its last pulse and never between two, so the
\* persisted position is never ahead of the pulses delivered.
C23_SaveAfterAllPulses ==
    /\ \A r \in Handlers :
           /\ SaveAfterPulses(h[r].log)
           /\ h[r].pc \in {"color_pulse", "color_save", "press"} =>
                  /\ SavesOf(h[r].log) = <<>>
                  /\ state_file = h[r].f0
    /\ (last.pc = "returned" /\ last.op \in MutatingOps) =>
           /\ SaveAfterPulses(last.log)
           /\ Len(SavesOf(last.log)) = 1 =>
                  /\ Len(PinsPulsed(last.log)) = PulsesOwed(last)
                  /\ SavesOf(last.log)[1].count.n =
                         IF last.op = "set_color" THEN 0
                         ELSE CyclicAdvances(last.p0, PulsesOwed(last))

\* Three presses of the mode button from position 0: three pulses, then
\* the one save of position 3.
C23_Witness ==
    /\ ReturnedFrom("press_mode_button")
    /\ last.p0 = 0
    /\ last.count = 3
    /\ Len(last.log) = 4
    /\ \A k \in 1..3 : last.log[k].e = "pulse"
    /\ last.log[4] = SaveEvent(PyInt(3), StoredColor(last.c0))

====
